---- MODULE Spec2Model ----
(***************************************************************************)
(* Model of the authenticated, rate-limited, retrying API access layer of  *)
(* Stock_list: TokenManager (src/src/auth.py) and KiwoomClient             *)
(* (src/src/client.py), driven by one single-threaded caller.              *)
(*                                                                         *)
(* Time is an integer clock in hundredths of a second: time.time() and     *)
(* datetime.now() read the same clock `now`.  A blocking call (a sleep, a  *)
(* POST) advances the clock inside the action that makes it.               *)
(***************************************************************************)
EXTENDS Integers, Sequences, FiniteSets, TLC

VARIABLES now, _last_request_time, _token, issued, pc, call, attempt,
          headers, outcome, trace, postStarts, ops,
          sig, batch, listing

\* the client and its token manager
clientVars == <<now, _last_request_time, _token, issued, pc, call, attempt,
                headers, outcome, trace, postStarts, ops>>
\* the scripts built on the client: one evaluate_signal call (sig), the run of
\* swing_signal.main (batch) and the run of main.main (listing)
scriptVars == <<sig, batch, listing>>

vars == <<now, _last_request_time, _token, issued, pc, call, attempt,
          headers, outcome, trace, postStarts, ops, sig, batch, listing>>

(* ------------------------------ bounds -------------------------------- *)

\* number of calls (_request, revoke) the caller makes in one run
MaxOps == 2
\* time.time() when the client is constructed
StartTime == 1000

(* ------------------------- program constants --------------------------- *)

\* KiwoomClient.MIN_REQUEST_INTERVAL = 0.35 s
MIN_REQUEST_INTERVAL == 35
\* timedelta(minutes=1) in Token.is_expired
ExpiryMargin == 6000
\* one second, the unit of time.sleep(wait_s)
Second == 100
\* retry_count: int = 3, the default budget of _request
DefaultRetryCount == 3

(* --------------------------- the environment --------------------------- *)

\* how long the token endpoint takes to answer
TokenDurations == {50}
\* how long an API or revoke POST takes to answer
PostDurations == {10}
\* lifetimes the token endpoint grants, counted from its answer (30 s, 2 min)
TokenLifetimes == {3000, 12000}

\* an expires_dt string: empty, not in %Y%m%d%H%M%S format, or a timestamp
EmptyExpiry == [fmt |-> "empty", time |-> 0]
MalformedExpiry == [fmt |-> "malformed", time |-> 0]
Timestamp(t) == [fmt |-> "timestamp", time |-> t]

\* decoded JSON bodies of the API endpoints
Bodies == {[return_code |-> 0, return_msg |-> ""],
           [return_code |-> 2, return_msg |-> "server message"]}
NoBody == [return_code |-> 0, return_msg |-> ""]

\* values of the Retry-After header; "" is an absent (or empty) header
RetryAfterHeaders == {"", "1", "soon"}

\* what one API POST can come to: no HTTP answer, or a status with its
\* Retry-After header and its body
ApiReplies ==
  {[transport |-> "failed", status_code |-> 0, retry_after |-> "", json |-> NoBody]}
  \cup {[transport |-> "ok", status_code |-> 200, retry_after |-> "", json |-> b] :
          b \in Bodies}
  \cup {[transport |-> "ok", status_code |-> 429, retry_after |-> ra, json |-> NoBody] :
          ra \in RetryAfterHeaders}
  \cup {[transport |-> "ok", status_code |-> 500, retry_after |-> "", json |-> NoBody]}

\* what the token endpoint can answer at time t, `serial` being the next
\* credential string; 0 is an absent or empty field
TokenReplies(serial, t) ==
  {[transport |-> "failed", status_code |-> 0,
    json |-> [token |-> 0, access_token |-> 0, expires_dt |-> EmptyExpiry]],
   [transport |-> "ok", status_code |-> 401,
    json |-> [token |-> 0, access_token |-> 0, expires_dt |-> EmptyExpiry]]}
  \cup {[transport |-> "ok", status_code |-> 200,
         json |-> [token |-> tk, access_token |-> at, expires_dt |-> e]] :
          tk \in {0, serial}, at \in {0, serial},
          e \in {EmptyExpiry, MalformedExpiry} \cup {Timestamp(t + l) : l \in TokenLifetimes}}

\* what the revoke POST can come to (its status is never looked at)
RevokeReplies == {"ok", "error_status", "failed"}

(* ----------------------------- auth.py --------------------------------- *)

None == <<>>
Some(x) == <<x>>

\* is_expired as it would be without the safety margin
is_expired_NoMargin(tok, t) ==
  IF tok.expires_dt.fmt = "empty" THEN FALSE
  ELSE IF tok.expires_dt.fmt = "malformed" THEN FALSE
  ELSE t >= tok.expires_dt.time

\* Token.is_expired at clock time t
is_expired(tok, t) ==
  IF tok.expires_dt.fmt = "empty" THEN FALSE
  ELSE IF tok.expires_dt.fmt = "malformed" THEN FALSE
  ELSE t >= tok.expires_dt.time - ExpiryMargin

\* the test of TokenManager.token: a token-acquisition call is needed
NeedsRefresh(slot, t) == IF slot = None THEN TRUE ELSE is_expired(slot[1], t)

\* result.get("token") or result.get("access_token")
TokenField(json) == IF json.token # 0 THEN json.token ELSE json.access_token

\* the Token built at the end of _refresh_token
NewToken(json) ==
  [access_token |-> TokenField(json), token_type |-> "Bearer",
   expires_dt |-> json.expires_dt]

\* _refresh_token as it would be without the `if not token` check
RefreshError_NoTokenCheck(reply) ==
  IF reply.transport = "failed" THEN "TransportError"
  ELSE IF reply.status_code >= 400 THEN "HTTPStatusError"
  ELSE ""

\* what _refresh_token raises on a reply, "" when it raises nothing
RefreshError(reply) ==
  IF reply.transport = "failed" THEN "TransportError"
  ELSE IF reply.status_code >= 400 THEN "HTTPStatusError"
  ELSE IF TokenField(reply.json) = 0 THEN "RuntimeError"
  ELSE ""

\* the slot after _refresh_token got `reply`
SlotAfterRefresh(slot, reply) ==
  IF RefreshError(reply) = "" THEN Some(NewToken(reply.json)) ELSE slot

\* _request as it would be if next-key were sent only together with cont-yn
BuildHeaders_NextKeyUnderContYn(api_id, tok, cont_yn, next_key) ==
  [api_id |-> api_id, authorization |-> tok.access_token,
   cont_yn |-> cont_yn, next_key |-> IF cont_yn # "" THEN next_key ELSE ""]

\* get_auth_header's dict, with the continuation headers _request adds
BuildHeaders(api_id, tok, cont_yn, next_key) ==
  [api_id |-> api_id, authorization |-> tok.access_token,
   cont_yn |-> cont_yn, next_key |-> next_key]

\* revoke as it would be with the slot cleared after the POST, not in a finally
SlotAfterRevoke_NoFinally(slot, reply) == IF reply = "failed" THEN slot ELSE None

\* the slot after revoke's try/finally ran
SlotAfterRevoke(slot, reply) == None

\* what revoke raises on the outcome of its POST, "" when nothing
RevokeError(reply) == IF reply = "failed" THEN "TransportError" ELSE ""

(* ----------------------------- client.py ------------------------------- *)

\* the time _wait_for_rate_limit sleeps when called at time t
PacingSleep(last, t) ==
  IF t - last < MIN_REQUEST_INTERVAL THEN MIN_REQUEST_INTERVAL - (t - last) ELSE 0

\* int(retry_after): the strings int() accepts
IntStrings == {"0", "1", "3"}
int(s) == CASE s = "0" -> 0 [] s = "1" -> 1 [] s = "3" -> 3

\* response.status_code == 429 and attempt < retry_count - 1
IsBackoff(reply, att, retry_count) ==
  reply.status_code = 429 /\ att < retry_count - 1

\* the backoff as it would be if the Retry-After header were not read
wait_s_NoHeader(retry_after, att) == (att + 1) * 2

\* wait_s = int(retry_after) if retry_after else (attempt + 1) * 2
wait_s(retry_after, att) ==
  IF retry_after # "" THEN int(retry_after) ELSE (att + 1) * 2

\* the except clause as it would be with a bare raise
Reraise_Always(att, retry_count) == TRUE

\* the except clause: HTTPStatusError is re-raised on the last attempt only
Reraise(att, retry_count) == att = retry_count - 1

\* the payload returned after the loop
SyntheticFailure == [return_code |-> 1, return_msg |-> "request failed"]

(* ------------------------------- state --------------------------------- *)

Pending == [state |-> "pending", exc |-> "", json |-> None]
Raised(e) == [state |-> "raised", exc |-> e, json |-> None]
Returned(b) == [state |-> "returned", exc |-> "", json |-> Some(b)]
ReturnedNone == [state |-> "returned", exc |-> "", json |-> None]

NoCall == [name |-> "", prev |-> "", api_id |-> "", cont_yn |-> "", next_key |-> "",
           retry_count |-> 0]
NoHeaders == [api_id |-> "", authorization |-> 0, cont_yn |-> "", next_key |-> ""]
EmptyTrace == [waits |-> 0, auths |-> 0, tokenCalls |-> 0, posts |-> 0,
               revokePosts |-> 0, replies |-> <<>>, backoffs |-> <<>>,
               tokenMissing |-> FALSE, slotBefore |-> None]

\* no script is running
NoScript == [pc |-> "off"]

\* KiwoomClient() constructed
ClientInit ==
  /\ now = StartTime
  /\ _last_request_time = 0
  /\ _token = None
  /\ issued = 0
  /\ pc = "idle"
  /\ call = NoCall
  /\ attempt = 0
  /\ headers = NoHeaders
  /\ outcome = Pending
  /\ trace = EmptyTrace
  /\ postStarts = <<>>
  /\ ops = 0

Init ==
  /\ ClientInit
  /\ sig = NoScript
  /\ batch = NoScript
  /\ listing = NoScript

\* the token endpoint answered 200 with neither a token nor an access_token
\* (history only)
LacksToken(reply) ==
  /\ reply.transport = "ok"
  /\ reply.status_code = 200
  /\ reply.json.token = 0
  /\ reply.json.access_token = 0

\* the last two start times of API POSTs
Push(starts, t) == IF Len(starts) < 2 THEN Append(starts, t) ELSE <<starts[2], t>>

(* ------------------------------ actions -------------------------------- *)

\* a facade method calls _request(api_id, path, body, cont_yn, next_key, retry_count)
StartRequest(api_id, cont_yn, next_key, retry_count) ==
  /\ UNCHANGED scriptVars
  /\ pc = "idle"
  /\ ops < MaxOps
  /\ ops' = ops + 1
  /\ call' = [name |-> "_request", prev |-> call.name, api_id |-> api_id,
              cont_yn |-> cont_yn, next_key |-> next_key, retry_count |-> retry_count]
  /\ attempt' = 0
  /\ headers' = NoHeaders
  /\ outcome' = Pending
  /\ trace' = [EmptyTrace EXCEPT !.slotBefore = _token]
  /\ pc' = "loop"
  /\ UNCHANGED <<now, _last_request_time, _token, issued, postStarts>>

\* for attempt in range(retry_count): self._wait_for_rate_limit()
WaitForRateLimit ==
  /\ UNCHANGED scriptVars
  /\ pc = "loop"
  /\ attempt < call.retry_count
  /\ now' = now + PacingSleep(_last_request_time, now)
  /\ _last_request_time' = now'
  /\ trace' = [trace EXCEPT !.waits = @ + 1]
  /\ pc' = "auth"
  /\ UNCHANGED <<_token, issued, call, attempt, headers, outcome, postStarts, ops>>

\* the loop ran out: return {"return_code": 1, "return_msg": "request failed"}
ReturnSynthetic ==
  /\ UNCHANGED scriptVars
  /\ pc = "loop"
  /\ attempt >= call.retry_count
  /\ outcome' = Returned(SyntheticFailure)
  /\ pc' = "idle"
  /\ UNCHANGED <<now, _last_request_time, _token, issued, call, attempt, headers,
                 trace, postStarts, ops>>

\* get_auth_header with a cached token that is not expired, then the API POST
\* is sent
AuthCached ==
  /\ UNCHANGED scriptVars
  /\ pc = "auth"
  /\ ~NeedsRefresh(_token, now)
  /\ headers' = BuildHeaders(call.api_id, _token[1], call.cont_yn, call.next_key)
  /\ trace' = [trace EXCEPT !.auths = @ + 1, !.posts = @ + 1]
  /\ postStarts' = Push(postStarts, now)
  /\ pc' = "post"
  /\ UNCHANGED <<now, _last_request_time, _token, issued, call, attempt, outcome, ops>>

\* get_auth_header finds no usable token: _refresh_token posts to /oauth2/token
AuthRefresh ==
  /\ UNCHANGED scriptVars
  /\ pc = "auth"
  /\ NeedsRefresh(_token, now)
  /\ trace' = [trace EXCEPT !.auths = @ + 1, !.tokenCalls = @ + 1, !.slotBefore = _token]
  /\ pc' = "token_post"
  /\ UNCHANGED <<now, _last_request_time, _token, issued, call, attempt, headers,
                 outcome, postStarts, ops>>

\* the token endpoint answers after d: _refresh_token ends, and on success
\* get_auth_header returns and the API POST is sent
TokenResponse(reply, d) ==
  /\ UNCHANGED scriptVars
  /\ pc = "token_post"
  /\ now' = now + d
  /\ _token' = SlotAfterRefresh(_token, reply)
  /\ LET seen == [trace EXCEPT !.tokenMissing = LacksToken(reply)] IN
     IF RefreshError(reply) = ""
     THEN /\ issued' = issued + 1
          /\ headers' = BuildHeaders(call.api_id, _token'[1], call.cont_yn, call.next_key)
          /\ trace' = [seen EXCEPT !.posts = @ + 1]
          /\ postStarts' = Push(postStarts, now')
          /\ pc' = "post"
          /\ UNCHANGED outcome
     ELSE /\ outcome' = Raised(RefreshError(reply))
          /\ trace' = seen
          /\ pc' = "idle"
          /\ UNCHANGED <<issued, headers, postStarts>>
  /\ UNCHANGED <<_last_request_time, call, attempt, ops>>

\* the API POST ends after d with `reply`: the rest of the loop body
PostResponse(reply, d) ==
  /\ UNCHANGED scriptVars
  /\ pc = "post"
  /\ LET seen == [trace EXCEPT !.replies = Append(@, reply)] IN
     IF reply.transport = "failed"
     THEN \* not an HTTPStatusError: no except clause catches it
          /\ now' = now + d
          /\ outcome' = Raised("TransportError")
          /\ trace' = seen
          /\ pc' = "idle"
          /\ UNCHANGED attempt
     ELSE IF IsBackoff(reply, attempt, call.retry_count)
     THEN IF reply.retry_after # "" /\ reply.retry_after \notin IntStrings
          THEN \* int(retry_after) raises ValueError
               /\ now' = now + d
               /\ outcome' = Raised("ValueError")
               /\ trace' = seen
               /\ pc' = "idle"
               /\ UNCHANGED attempt
          ELSE \* time.sleep(wait_s); continue
               /\ now' = now + d + wait_s(reply.retry_after, attempt) * Second
               /\ trace' = [seen EXCEPT !.backoffs =
                              Append(@, wait_s(reply.retry_after, attempt))]
               /\ attempt' = attempt + 1
               /\ pc' = "loop"
               /\ UNCHANGED outcome
     ELSE IF reply.status_code >= 400
     THEN \* raise_for_status() raises HTTPStatusError
          /\ now' = now + d
          /\ trace' = seen
          /\ IF Reraise(attempt, call.retry_count)
             THEN /\ outcome' = Raised("HTTPStatusError")
                  /\ pc' = "idle"
                  /\ UNCHANGED attempt
             ELSE /\ attempt' = attempt + 1
                  /\ pc' = "loop"
                  /\ UNCHANGED outcome
     ELSE \* return response.json()
          /\ now' = now + d
          /\ outcome' = Returned(reply.json)
          /\ trace' = seen
          /\ pc' = "idle"
          /\ UNCHANGED attempt
  /\ UNCHANGED <<_last_request_time, _token, issued, call, headers, postStarts, ops>>

\* KiwoomClient.close() -> TokenManager.revoke() with an empty slot: return
RevokeNoToken ==
  /\ UNCHANGED scriptVars
  /\ pc = "idle"
  /\ ops < MaxOps
  /\ _token = None
  /\ ops' = ops + 1
  /\ call' = [NoCall EXCEPT !.name = "revoke", !.prev = call.name]
  /\ attempt' = 0
  /\ headers' = NoHeaders
  /\ outcome' = ReturnedNone
  /\ trace' = EmptyTrace
  /\ UNCHANGED <<now, _last_request_time, _token, issued, pc, postStarts>>

\* revoke() with a cached token: the revoke POST is sent
RevokeStart ==
  /\ UNCHANGED scriptVars
  /\ pc = "idle"
  /\ ops < MaxOps
  /\ _token # None
  /\ ops' = ops + 1
  /\ call' = [NoCall EXCEPT !.name = "revoke", !.prev = call.name]
  /\ outcome' = Pending
  /\ attempt' = 0
  /\ headers' = NoHeaders
  /\ trace' = [EmptyTrace EXCEPT !.revokePosts = 1, !.slotBefore = _token]
  /\ pc' = "revoke_post"
  /\ UNCHANGED <<now, _last_request_time, _token, issued, postStarts>>

\* the revoke POST ends after d: finally: self._token = None
RevokeResponse(reply, d) ==
  /\ UNCHANGED scriptVars
  /\ pc = "revoke_post"
  /\ now' = now + d
  /\ _token' = SlotAfterRevoke(_token, reply)
  /\ outcome' = IF RevokeError(reply) = "" THEN ReturnedNone
                ELSE Raised(RevokeError(reply))
  /\ pc' = "idle"
  /\ UNCHANGED <<_last_request_time, issued, call, attempt, headers, trace,
                 postStarts, ops>>

\* the arguments callers pass: the operation, the continuation headers
\* (cont_yn, next_key) and the retry budget
ApiIds == {"ka10080"}
Continuations == {<<"", "">>, <<"Y", "">>, <<"", "k1">>, <<"Y", "k1">>}
RetryCounts == 0..DefaultRetryCount

Next ==
  \/ \E a \in ApiIds, c \in Continuations, rc \in RetryCounts :
       StartRequest(a, c[1], c[2], rc)
  \/ WaitForRateLimit
  \/ ReturnSynthetic
  \/ AuthCached
  \/ AuthRefresh
  \/ \E d \in TokenDurations : \E r \in TokenReplies(issued + 1, now + d) :
       TokenResponse(r, d)
  \/ \E r \in ApiReplies, d \in PostDurations : PostResponse(r, d)
  \/ RevokeNoToken
  \/ RevokeStart
  \/ \E r \in RevokeReplies, d \in PostDurations : RevokeResponse(r, d)

Spec == Init /\ [][Next]_vars

(***************************************************************************)
(* swing_signal.py: evaluate_signal.  Prices and volumes are integers and  *)
(* every float is an exact fraction [n, d] with d > 0 (rounding is not     *)
(* modelled).                                                              *)
(***************************************************************************)

\* how many bars beyond the minimum the longer series have
ExtraBars == 5

\* len(closes) < 30
MinSamples == 30
\* --recent-high-bars, --pullback-min, --pullback-max, --min-vol-ratio defaults
DefaultRecentHighBars == 120
DefaultPullbackMin == 3
DefaultPullbackMax == 15
DefaultMinVolRatio == 1

Frac(n, d) == [n |-> n, d |-> d]
Whole(k) == [n |-> k, d |-> 1]
Leq(a, b) == a.n * b.d <= b.n * a.d
Less(a, b) == a.n * b.d < b.n * a.d
Same(a, b) == a.n * b.d = b.n * a.d
Plus(a, b) == [n |-> a.n * b.d + b.n * a.d, d |-> a.d * b.d]
Minus(a, b) == [n |-> a.n * b.d - b.n * a.d, d |-> a.d * b.d]
Times(a, b) == [n |-> a.n * b.n, d |-> a.d * b.d]
\* a / b for b > 0
Over(a, b) == [n |-> a.n * b.d, d |-> a.d * b.n]
FMin(a, b) == IF Leq(a, b) THEN a ELSE b
FMax(a, b) == IF Leq(a, b) THEN b ELSE a

\* seq[-k:] for k >= 1
Last(seq, k) ==
  IF Len(seq) <= k THEN seq ELSE SubSeq(seq, Len(seq) - k + 1, Len(seq))
\* seq[-from:-to] for from > to >= 1
Window(seq, from, to) ==
  SubSeq(seq, (IF Len(seq) > from THEN Len(seq) - from ELSE 0) + 1, Len(seq) - to)

RECURSIVE sum(_)
sum(seq) == IF seq = <<>> THEN 0 ELSE seq[1] + sum(Tail(seq))
RECURSIVE max(_)
max(seq) ==
  IF Len(seq) = 1 THEN seq[1]
  ELSE LET m == max(Tail(seq)) IN IF seq[1] >= m THEN seq[1] ELSE m

\* avg
avg(values) == IF values = <<>> THEN Whole(0) ELSE Frac(sum(values), Len(values))

\* recent_high as it would be if the current bar were left out of the window
RecentHigh_BeforeCurrent(closes, recent_high_bars) ==
  max(SubSeq(closes, 1, Len(closes) - 1))

\* recent_high: the highest close of the last recent_high_bars bars
RecentHigh(closes, recent_high_bars) ==
  max(IF Len(closes) >= recent_high_bars THEN Last(closes, recent_high_bars) ELSE closes)

\* retrace
Retrace(closes, recent_high_bars) ==
  LET current == closes[Len(closes)]
      recent_high == RecentHigh(closes, recent_high_bars) IN
  IF recent_high > 0 THEN Frac((recent_high - current) * 100, recent_high) ELSE Whole(0)

\* prev5_high
Prev5High(closes) ==
  IF Len(closes) >= 6 THEN max(Window(closes, 6, 1)) ELSE closes[Len(closes)]

\* vol_ratio as it would be without the prev_vol > 0 guard on a zero window
VolRatio_OneOnEmptyWindow(volumes) ==
  LET recent_vol == avg(Last(volumes, 5))
      prev_vol == avg(Window(volumes, 25, 5)) IN
  IF Less(Whole(0), prev_vol) THEN Over(recent_vol, prev_vol) ELSE Whole(1)

\* vol_ratio
VolRatio(volumes) ==
  LET recent_vol == avg(Last(volumes, 5))
      prev_vol == avg(Window(volumes, 25, 5)) IN
  IF Less(Whole(0), prev_vol) THEN Over(recent_vol, prev_vol) ELSE Whole(0)

\* pullback_ok as it would be with the long average itself as the floor
PullbackOk_NoTolerance(retrace, current, long_ma, pullback_min, pullback_max) ==
  /\ Leq(pullback_min, retrace)
  /\ Leq(retrace, pullback_max)
  /\ Less(Whole(0), long_ma)
  /\ Leq(long_ma, Whole(current))

\* pullback_ok
PullbackOk(retrace, current, long_ma, pullback_min, pullback_max) ==
  /\ Leq(pullback_min, retrace)
  /\ Leq(retrace, pullback_max)
  /\ Less(Whole(0), long_ma)
  /\ Leq(Times(long_ma, Frac(98, 100)), Whole(current))

\* rebound_ok
ReboundOk(current, prev5_high, short_ma, long_ma, vol_ratio, min_vol_ratio) ==
  /\ current >= prev5_high
  /\ Leq(long_ma, short_ma)
  /\ Leq(min_vol_ratio, vol_ratio)

\* score as it would be without the cap of the volume bonus
Score_NoCap(pullback_ok, rebound_ok, vol_ratio) ==
  Plus(Plus(Whole(IF pullback_ok THEN 40 ELSE 0), Whole(IF rebound_ok THEN 40 ELSE 0)),
       FMax(Whole(0), Times(Minus(vol_ratio, Whole(1)), Whole(20))))

\* score
Score(pullback_ok, rebound_ok, vol_ratio) ==
  Plus(Plus(Whole(IF pullback_ok THEN 40 ELSE 0), Whole(IF rebound_ok THEN 40 ELSE 0)),
       FMin(Whole(20), FMax(Whole(0), Times(Minus(vol_ratio, Whole(1)), Whole(20)))))

\* the SignalRow evaluate_signal builds from a series of at least 30 closes
SignalRow(code, closes, volumes, recent_high_bars, pullback_min, pullback_max, min_vol_ratio) ==
  LET current == closes[Len(closes)]
      retrace == Retrace(closes, recent_high_bars)
      short_ma == avg(Last(closes, 5))
      long_ma == avg(Last(closes, 20))
      vol_ratio == VolRatio(volumes)
      pullback_ok == PullbackOk(retrace, current, long_ma, pullback_min, pullback_max)
      rebound_ok == ReboundOk(current, Prev5High(closes), short_ma, long_ma, vol_ratio,
                              min_vol_ratio)
  IN [code |-> code, current_price |-> current, retrace_pct |-> retrace,
      short_ma |-> short_ma, long_ma |-> long_ma, volume_ratio |-> vol_ratio,
      pullback_ok |-> pullback_ok, rebound_ok |-> rebound_ok,
      signal |-> pullback_ok /\ rebound_ok,
      signal_score |-> Score(pullback_ok, rebound_ok, vol_ratio)]

\* evaluate_signal as it would be if 29 bars were enough
evaluate_signal_OneBarLess(code, closes, volumes, recent_high_bars, pullback_min, pullback_max, min_vol_ratio) ==
  IF Len(closes) < MinSamples - 1 THEN None
  ELSE Some(SignalRow(code, closes, volumes, recent_high_bars, pullback_min,
                      pullback_max, min_vol_ratio))

\* evaluate_signal: None, or the row
evaluate_signal(code, closes, volumes, recent_high_bars, pullback_min, pullback_max, min_vol_ratio) ==
  IF Len(closes) < MinSamples THEN None
  ELSE Some(SignalRow(code, closes, volumes, recent_high_bars, pullback_min,
                      pullback_max, min_vol_ratio))

(* ---------------- one call of evaluate_signal: its inputs --------------- *)

Rep(x, k) == [i \in 1..k |-> x]

\* closes and volumes the chart endpoint can deliver
Prices == {0, 100, 110}
VolumeValues == {-1, 0, 1, 2, 3}
SeriesLengths == {MinSamples - 1, MinSamples, MinSamples + ExtraBars}

\* a series of n closes: an old level, then the last 20 bars as 10 + 5 + 4 + 1
CloseSeries(n, h, a, b, c, d) ==
  Rep(h, n - 20) \o Rep(a, 10) \o Rep(b, 5) \o Rep(c, 4) \o <<d>>
\* a series of n volumes: an earlier level and the level of the last 5 bars
VolumeSeries(n, v, w) == Rep(v, n - 5) \o Rep(w, 5)

\* the series of the end-to-end example: [100]*20 + [90,88,87,86,85] + [95,97,99,101,103]
ExampleCloses == Rep(100, 20) \o <<90, 88, 87, 86, 85>> \o <<95, 97, 99, 101, 103>>

\* threshold sets: the defaults, and a band that takes every retrace
Bands == {<<Whole(DefaultPullbackMin), Whole(DefaultPullbackMax)>>, <<Whole(0), Whole(100)>>}
RecentHighBars == {DefaultRecentHighBars, 10}

SigInputs ==
  LET series ==
        {<<CloseSeries(n, h, a, b, c, d), n>> :
           n \in SeriesLengths, h \in Prices, a \in Prices, b \in Prices,
           c \in Prices, d \in Prices}
        \cup {<<ExampleCloses, Len(ExampleCloses)>>}
  IN {[pc |-> "call", closes |-> cs[1], volumes |-> VolumeSeries(cs[2], v, w),
       recent_high_bars |-> rhb, pullback_min |-> band[1], pullback_max |-> band[2],
       min_vol_ratio |-> Whole(DefaultMinVolRatio), result |-> None] :
        cs \in series, v \in VolumeValues, w \in VolumeValues,
        rhb \in RecentHighBars, band \in Bands}

SigInit ==
  /\ ClientInit
  /\ sig \in SigInputs
  /\ batch = NoScript
  /\ listing = NoScript

\* the call returns
Evaluate ==
  /\ sig.pc = "call"
  /\ sig' = [sig EXCEPT !.pc = "returned",
               !.result = evaluate_signal("005930", sig.closes, sig.volumes,
                                          sig.recent_high_bars, sig.pullback_min,
                                          sig.pullback_max, sig.min_vol_ratio)]
  /\ UNCHANGED <<clientVars, batch, listing>>

SigNext == Evaluate

SigSpec == SigInit /\ [][SigNext]_vars

(***************************************************************************)
(* swing_signal.py: main, the batch run over the candidate file.  A call   *)
(* of client.get_stock_chart is taken by its outcome: the decoded body it  *)
(* returns or the exception _request lets out.                             *)
(***************************************************************************)

\* rows of the candidate file
MaxCandidates == 3

CodeNames == <<"005930", "000660", "035720", "051910", "068270">>
\* read_candidates keeps every row whose code is not empty; " " is one
CandidateFiles ==
  {[i \in 1..MaxCandidates |-> IF i \in blanks THEN " " ELSE CodeNames[i]] :
     blanks \in SUBSET (1..MaxCandidates)}

\* str(...).strip() on the codes of the file
strip(code) ==
  CASE code = " " -> ""
    [] code = " 000660 " -> "000660"
    [] OTHER -> code

\* parse_price on a number
parse_price(value) == IF value < 0 THEN -value ELSE value
\* to_int on a number
to_int(value) == value

\* the chart records of a response: price signed by direction, and quantity
ChartItems(closes, volumes, sign) ==
  [i \in 1..Len(closes) |-> [cur_prc |-> sign * closes[i], trde_qty |-> volumes[i]]]

\* extract_chart_items: the list under the first chart key of the response
extract_chart_items(response) == response.stk_min_pole_chart_qry

\* to_series
to_series(items) ==
  [closes |-> [i \in 1..Len(items) |-> parse_price(items[i].cur_prc)],
   volumes |-> [i \in 1..Len(items) |-> to_int(items[i].trde_qty)]]

\* the charts the server holds: a pullback with a rebound on high or on even
\* volume, a flat series on falling, absent or rising volume, a series one bar
\* short, and no bars at all
Charts ==
  LET pulled(n) == CloseSeries(n, 110, 100, 100, 100, 100)
      flat == CloseSeries(MinSamples, 100, 100, 100, 100, 100) IN
  {ChartItems(pulled(MinSamples), VolumeSeries(MinSamples, 1, 3), -1),
   ChartItems(pulled(MinSamples), VolumeSeries(MinSamples, 1, 1), 1),
   ChartItems(flat, VolumeSeries(MinSamples, 2, 1), 1),
   ChartItems(flat, VolumeSeries(MinSamples, 0, 1), 1),
   ChartItems(flat, VolumeSeries(MinSamples, 1, 2), 1),
   ChartItems(pulled(MinSamples - 1), VolumeSeries(MinSamples - 1, 1, 3), 1),
   <<>>}

\* what get_stock_chart gives back: a body with its chart, a body with an
\* application error code, or an exception out of _request
ChartOutcomes ==
  {Returned([return_code |-> body.return_code, return_msg |-> body.return_msg,
             stk_min_pole_chart_qry |-> IF body.return_code = 0 THEN items ELSE <<>>]) :
     body \in Bodies, items \in Charts}
  \cup {Raised("HTTPStatusError"), Raised("TransportError")}

\* what client.close() raises, "" when nothing
CloseErrors == {RevokeError(reply) : reply \in RevokeReplies}

\* the sort key (signal, signal_score, volume_ratio) without its last part
KeyLess_NoVolumeRatio(a, b) ==
  IF a.signal # b.signal THEN b.signal
  ELSE Less(a.signal_score, b.signal_score)

\* key(a) < key(b) for the key (signal, signal_score, volume_ratio)
KeyLess(a, b) ==
  IF a.signal # b.signal THEN b.signal
  ELSE IF ~Same(a.signal_score, b.signal_score) THEN Less(a.signal_score, b.signal_score)
  ELSE Less(a.volume_ratio, b.volume_ratio)

\* list.sort(key, reverse=True) is stable: a row goes in front of the first
\* row with a smaller key
RECURSIVE Insert(_, _)
Insert(row, sorted) ==
  IF sorted = <<>> THEN <<row>>
  ELSE IF KeyLess(sorted[1], row) THEN <<row>> \o sorted
  ELSE <<sorted[1]>> \o Insert(row, Tail(sorted))
RECURSIVE sort(_)
sort(rows) ==
  IF rows = <<>> THEN <<>>
  ELSE Insert(rows[Len(rows)], sort(SubSeq(rows, 1, Len(rows) - 1)))

\* [r for r in rows if r.signal] if args.only_signal else rows
OutputRows(rows, only_signal) ==
  IF only_signal THEN SelectSeq(rows, LAMBDA r : r.signal) ELSE rows

BatchInputs ==
  {[pc |-> "loop", candidates |-> file, i |-> 1, only_signal |-> only,
    recent_high_bars |-> DefaultRecentHighBars,
    pullback_min |-> band[1], pullback_max |-> band[2],
    min_vol_ratio |-> Whole(DefaultMinVolRatio),
    rows |-> <<>>, sorted |-> <<>>, output |-> <<>>, saved |-> FALSE,
    fetched |-> <<>>, replies |-> <<>>, exc |-> "", closed |-> FALSE] :
     file \in CandidateFiles, only \in BOOLEAN, band \in Bands}

BatchInit ==
  /\ ClientInit
  /\ sig = NoScript
  /\ batch \in BatchInputs
  /\ listing = NoScript

\* a candidate whose code is blank: `if not code: continue`
SkipBlank ==
  /\ batch.pc = "loop"
  /\ batch.i <= Len(batch.candidates)
  /\ strip(batch.candidates[batch.i]) = ""
  /\ batch' = [batch EXCEPT !.i = @ + 1]
  /\ UNCHANGED <<clientVars, sig, listing>>

\* one pass of the loop body for a candidate with a code; an exception leaves
\* the loop and main through `finally: client.close()`
FetchChart(out, close_error) ==
  /\ batch.pc = "loop"
  /\ batch.i <= Len(batch.candidates)
  /\ strip(batch.candidates[batch.i]) # ""
  /\ LET code == strip(batch.candidates[batch.i])
         seen == [batch EXCEPT !.fetched = Append(@, code),
                               !.replies = Append(@, [code |-> code, state |-> out.state,
                                                     return_code |-> IF out.state = "returned"
                                                                       THEN out.json[1].return_code
                                                                       ELSE 0,
                                                     samples |-> IF out.state = "returned"
                                                                   THEN Len(out.json[1].stk_min_pole_chart_qry)
                                                                   ELSE 0])]
     IN IF out.state = "raised"
        THEN batch' = [seen EXCEPT !.pc = "raised", !.closed = TRUE,
                         !.exc = IF close_error # "" THEN close_error ELSE out.exc]
        ELSE IF out.json[1].return_code # 0
        THEN batch' = [seen EXCEPT !.i = @ + 1]
        ELSE LET series == to_series(extract_chart_items(out.json[1]))
                 evaluated == evaluate_signal(code, series.closes, series.volumes,
                                              batch.recent_high_bars, batch.pullback_min,
                                              batch.pullback_max, batch.min_vol_ratio)
             IN batch' = [seen EXCEPT !.i = @ + 1,
                            !.rows = IF evaluated # None THEN Append(@, evaluated[1]) ELSE @]
  /\ UNCHANGED <<clientVars, sig, listing>>

\* after the loop: sort, filter, print, save_csv, and client.close()
FinishBatch(close_error) ==
  /\ batch.pc = "loop"
  /\ batch.i > Len(batch.candidates)
  /\ LET sorted == sort(batch.rows) IN
     batch' = [batch EXCEPT !.sorted = sorted,
                 !.output = OutputRows(sorted, batch.only_signal),
                 !.saved = TRUE,
                 !.closed = TRUE,
                 !.exc = close_error,
                 !.pc = IF close_error # "" THEN "raised" ELSE "done"]
  /\ UNCHANGED <<clientVars, sig, listing>>

BatchNext ==
  \/ SkipBlank
  \/ \E out \in ChartOutcomes, close_error \in CloseErrors : FetchChart(out, close_error)
  \/ \E close_error \in CloseErrors : FinishBatch(close_error)

BatchSpec == BatchInit /\ [][BatchNext]_vars

(***************************************************************************)
(* main.py: main, the ranked list run.  A call of a facade method is taken *)
(* by its outcome, as in the batch run.                                    *)
(***************************************************************************)

\* records in one ranking response
MaxItems == 2

\* --limit, --swing-min-change, --swing-max-change defaults
DefaultLimit == 50
DefaultSwingMinChange == -3
DefaultSwingMaxChange == 12

\* the records of a ranking response; "" and 0 are a field that is missing or
\* empty.  The third has no code and the fourth a code of one space.
ItemRecords ==
  {[stk_cd |-> "005930", stk_nm |-> "Samsung", cur_prc |-> -70000, trde_qty |-> 1000, flu_rt |-> 5],
   [stk_cd |-> " 000660 ", stk_nm |-> "Hynix", cur_prc |-> 500, trde_qty |-> 2000, flu_rt |-> 20],
   [stk_cd |-> "", stk_nm |-> "", cur_prc |-> 0, trde_qty |-> 3000, flu_rt |-> 0],
   [stk_cd |-> " ", stk_nm |-> "Kakao", cur_prc |-> -300, trde_qty |-> 1500, flu_rt |-> 5]}

ItemLists == UNION {[1..n -> ItemRecords] : n \in 0..MaxItems}

\* `a or b or ...` then the conversion, on a number: None when missing
Converted(raw) == IF raw = 0 THEN None ELSE Some(raw)

\* parse_row
parse_row(item) ==
  [code |-> strip(item.stk_cd),
   name |-> item.stk_nm,
   price |-> IF item.cur_prc = 0 THEN None ELSE Some(parse_price(item.cur_prc)),
   volume |-> Converted(item.trde_qty),
   change_rate |-> Converted(item.flu_rt),
   swing_score |-> None]

\* extract_items: the list under the first key of the mode
extract_items(response, mode) == response.items

\* `key not in row.code.lower() and key not in row.name.lower()`
KeywordMissing(key, row) ==
  ~(\/ key = "0059" /\ row.code = "005930"
    \/ key = "sam" /\ row.name = "Samsung")

\* filter_rows
filter_rows(rows, keyword, min_price, max_price, min_volume) ==
  SelectSeq(rows, LAMBDA row :
    /\ ~(keyword # None /\ KeywordMissing(keyword[1], row))
    /\ ~(min_price # None /\ (IF row.price = None THEN TRUE ELSE row.price[1] < min_price[1]))
    /\ ~(max_price # None /\ (IF row.price = None THEN TRUE ELSE row.price[1] > max_price[1]))
    /\ ~(min_volume # None /\ (IF row.volume = None THEN TRUE ELSE row.volume[1] < min_volume[1])))

\* `x or default` on an optional number
OrDefault(opt, default) == IF opt = None THEN default ELSE IF opt[1] = 0 THEN default ELSE opt[1]

\* sorted(..., key, reverse=True) on pairs [key, row] with a fraction as key
RECURSIVE InsertByKey(_, _)
InsertByKey(pair, sorted) ==
  IF sorted = <<>> THEN <<pair>>
  ELSE IF Less(sorted[1].key, pair.key) THEN <<pair>> \o sorted
  ELSE <<sorted[1]>> \o InsertByKey(pair, Tail(sorted))
RECURSIVE SortedByKey(_)
SortedByKey(pairs) ==
  IF pairs = <<>> THEN <<>>
  ELSE InsertByKey(pairs[Len(pairs)], SortedByKey(SubSeq(pairs, 1, Len(pairs) - 1)))

\* {x.code: x for x in rows if x.code}: the last row of each code
CodeMap(rows) ==
  [code \in {rows[k].code : k \in {j \in DOMAIN rows : rows[j].code # ""}} |->
     rows[CHOOSE k \in DOMAIN rows :
            /\ rows[k].code = code
            /\ \A j \in DOMAIN rows : rows[j].code = code => j <= k]]

\* {r.code: i for i, r in enumerate(sorted(rows, key, reverse=True))}: the
\* last place of the code in the sorted rows, counted from 0
RankOf(code, rows, keys) ==
  LET ranked == SortedByKey([k \in DOMAIN rows |-> [key |-> Whole(keys[k]), row |-> rows[k]]])
      places == {k \in DOMAIN ranked : ranked[k].row.code = code}
  IN (CHOOSE k \in places : \A j \in places : j <= k) - 1

\* the sort keys `x.volume or 0` and `x.change_rate or -999.0` of the rows
VolumeKeys(rows) == [k \in DOMAIN rows |-> OrDefault(rows[k].volume, 0)]
ChangeKeys(rows) == [k \in DOMAIN rows |-> OrDefault(rows[k].change_rate, -999)]

\* the orders in which a set can be walked
Orders(S) ==
  {order \in [1..Cardinality(S) -> S] :
     \A i \in DOMAIN order : \A j \in DOMAIN order : order[i] = order[j] => i = j}

\* build_swing_rows, with the order in which the set common_codes is walked
build_swing_rows(volume_rows, change_rows, min_change, max_change, order) ==
  LET vol_map == CodeMap(volume_rows)
      chg_map == CodeMap(change_rows)
      kept == SelectSeq(order, LAMBDA code :
                 /\ chg_map[code].change_rate # None
                 /\ chg_map[code].change_rate[1] >= min_change
                 /\ chg_map[code].change_rate[1] <= max_change)
      scored == [k \in DOMAIN kept |->
                   LET code == kept[k]
                       v == vol_map[code]
                       c == chg_map[code]
                       score == Plus(Frac(6, 10 * (RankOf(code, volume_rows, VolumeKeys(volume_rows)) + 1)),
                                     Frac(4, 10 * (RankOf(code, change_rows, ChangeKeys(change_rows)) + 1)))
                   IN [key |-> score,
                       row |-> [code |-> code,
                                name |-> IF v.name # "" THEN v.name ELSE c.name,
                                price |-> IF v.price # None THEN v.price ELSE c.price,
                                volume |-> IF v.volume # None THEN v.volume ELSE c.volume,
                                change_rate |-> c.change_rate,
                                swing_score |-> Some(score)]]]
      ranked == SortedByKey(scored)
  IN [k \in DOMAIN ranked |-> ranked[k].row]

\* the codes both rankings hold
CommonCodes(volume_rows, change_rows) ==
  DOMAIN CodeMap(volume_rows) \cap DOMAIN CodeMap(change_rows)

\* what a ranking or condition call gives back
ListOutcomes ==
  {Returned([return_code |-> 0, return_msg |-> "", items |-> items]) : items \in ItemLists}
  \cup {Returned([return_code |-> body.return_code, return_msg |-> body.return_msg,
                  items |-> <<>>]) : body \in Bodies}
  \cup {Raised("HTTPStatusError")}

NoError == [type |-> "", msg |-> ""]

ListInputs ==
  {[pc |-> "fetch", mode |-> mode, step |-> IF mode = "swing" THEN "volume" ELSE mode,
    condition_idx |-> idx, keyword |-> keyword, min_price |-> min_price,
    max_price |-> None, min_volume |-> min_volume, limit |-> limit, out |-> out,
    swing_min_change |-> DefaultSwingMinChange, swing_max_change |-> max_change,
    volume_rows |-> <<>>, rows |-> <<>>, filtered |-> <<>>, printed |-> <<>>,
    written |-> <<>>, error |-> NoError, exc |-> "", closed |-> FALSE] :
     mode \in {"volume", "change", "condition", "swing"},
     idx \in {None, Some("1")},
     keyword \in {None, Some("0059")},
     min_price \in {None, Some(1000)},
     min_volume \in {None, Some(1200)},
     limit \in {1, DefaultLimit},
     max_change \in {DefaultSwingMaxChange, 30},
     out \in BOOLEAN}

ListInit ==
  /\ ClientInit
  /\ sig = NoScript
  /\ batch = NoScript
  /\ listing \in {l \in ListInputs :
                    /\ l.mode # "condition" => l.condition_idx = None
                    /\ l.mode # "swing" => l.swing_max_change = DefaultSwingMaxChange}

\* `except Exception as e: print(f"error: {e}")`, then `finally: client.close()`
Failed(l, type, msg, close_error) ==
  [l EXCEPT !.pc = "done", !.error = [type |-> type, msg |-> msg],
            !.exc = close_error, !.closed = TRUE]

\* filter_rows, print_rows, write_csv when --out is given, and client.close()
Listed(l, rows, close_error) ==
  LET filtered == filter_rows(rows, l.keyword, l.min_price, l.max_price, l.min_volume) IN
  [l EXCEPT !.pc = "done", !.rows = rows, !.filtered = filtered,
            !.printed = SubSeq(filtered, 1, IF Len(filtered) < l.limit THEN Len(filtered) ELSE l.limit),
            !.written = IF l.out THEN filtered ELSE <<>>,
            !.exc = close_error, !.closed = TRUE]

\* --mode condition without --condition-idx: get_rows_by_mode raises ValueError
ConditionWithoutIdx(close_error) ==
  /\ listing.pc = "fetch"
  /\ listing.step = "condition"
  /\ listing.condition_idx = None
  /\ listing' = Failed(listing, "ValueError", "condition-idx", close_error)
  /\ UNCHANGED <<clientVars, sig, batch>>

\* get_rows_by_mode on the outcome of its call, and what main does with it
GetRows(out, order, close_error) ==
  /\ listing.pc = "fetch"
  /\ listing.step = "condition" => listing.condition_idx # None
  /\ IF out.state = "raised"
     THEN listing' = Failed(listing, out.exc, "", close_error)
     ELSE IF out.json[1].return_code # 0
     THEN listing' = Failed(listing, "RuntimeError", out.json[1].return_msg, close_error)
     ELSE LET items == extract_items(out.json[1], listing.step)
              parsed == [k \in DOMAIN items |-> parse_row(items[k])]
          IN IF listing.mode = "swing" /\ listing.step = "volume"
             THEN listing' = [listing EXCEPT !.volume_rows = parsed, !.step = "change"]
             ELSE IF listing.mode = "swing"
             THEN /\ order \in Orders(CommonCodes(listing.volume_rows, parsed))
                  /\ listing' = Listed(listing,
                                       build_swing_rows(listing.volume_rows, parsed,
                                                        listing.swing_min_change,
                                                        listing.swing_max_change, order),
                                       close_error)
             ELSE listing' = Listed(listing, parsed, close_error)
  /\ UNCHANGED <<clientVars, sig, batch>>

\* every order in which a set of codes of the rankings can be walked
CodeOrders == UNION {Orders(S) : S \in SUBSET {"005930", "000660"}}

ListNext ==
  \/ \E close_error \in CloseErrors : ConditionWithoutIdx(close_error)
  \/ \E out \in ListOutcomes, order \in CodeOrders, close_error \in CloseErrors :
       GetRows(out, order, close_error)

ListSpec == ListInit /\ [][ListNext]_vars

(* ------------------------- claims: helpers ----------------------------- *)

\* a _request call is the current or the last finished call
InRequest == call.name = "_request"
\* the current call has ended (returned or raised)
Ended == pc = "idle" /\ outcome.state # "pending"
\* the status codes of the API replies the current request has seen
Statuses == [i \in 1..Len(trace.replies) |-> trace.replies[i].status_code]
\* the last API reply the current request has seen is an HTTP error other than 429
LastIsOtherHttpError ==
  /\ InRequest
  /\ trace.replies # <<>>
  /\ trace.replies[Len(trace.replies)].status_code >= 400
  /\ trace.replies[Len(trace.replies)].status_code # 429
\* the last API POST of the current request got no HTTP answer
LastIsTransportFailure ==
  /\ InRequest
  /\ trace.replies # <<>>
  /\ trace.replies[Len(trace.replies)].transport = "failed"
\* how many 429 answers the current request has seen
Count429 == Cardinality({i \in 1..Len(trace.replies) : trace.replies[i].status_code = 429})

(* ------------------------------- C1 ------------------------------------ *)

\* C1: a request with a budget of 3 that is answered 429, 429, 429 returns
\* the synthetic failure payload and raises nothing.
C1_ExhaustionReturnsSynthetic ==
  (InRequest /\ call.retry_count = 3 /\ Statuses = <<429, 429, 429>>)
    => (pc = "idle" /\ outcome = Returned(SyntheticFailure))

(* ------------------------------- C2 ------------------------------------ *)

C3_RetryThenSuccess ==
  (InRequest /\ call.retry_count = 3 /\ Statuses = <<429, 429, 200>>) =>
    /\ pc = "idle"
    /\ outcome = Returned(trace.replies[3].json)
    /\ trace.posts = 3
    /\ Len(trace.backoffs) = 2
    /\ \A i \in 1..2 :
         trace.backoffs[i] =
           IF trace.replies[i].retry_after = "1" THEN 1
           ELSE IF trace.replies[i].retry_after = "" THEN i * 2
           ELSE -1
    /\ trace.waits = 3
    /\ trace.auths = 3

\* 429 with Retry-After: 1, then 429 without the header, then 200
C3_Witness ==
  /\ InRequest
  /\ call.retry_count = 3
  /\ Statuses = <<429, 429, 200>>
  /\ trace.replies[1].retry_after = "1"
  /\ trace.replies[2].retry_after = ""
  /\ trace.replies[3].json.return_code = 2

(* ------------------------------- C4 ------------------------------------ *)

\* C4: the start times of two consecutive API POSTs of one client are at
\* least MIN_REQUEST_INTERVAL apart, also when a token acquisition runs
\* between the pacing wait and the POST.
C4_PostStartsPaced ==
  Len(postStarts) = 2 => postStarts[2] - postStarts[1] >= MIN_REQUEST_INTERVAL

(* ------------------------------- C5 ------------------------------------ *)

\* C5: the bearer token of every header set get_auth_header returns has, when
\* its expiry is known, at least 60 seconds left at the time of the return,
\* also when the token was obtained by the refresh inside that call.
C5_HeaderTokenValid ==
  pc = "post" =>
    /\ _token # None
    /\ headers.authorization = _token[1].access_token
    /\ _token[1].expires_dt.fmt = "timestamp" =>
         _token[1].expires_dt.time - now >= 60 * Second

(* ------------------------------- C6 ------------------------------------ *)

\* C6: get_auth_header makes a token-acquisition call exactly when no
\* Credential is cached or the cached one has a readable expires_dt with
\* now >= expires_dt - 60 seconds; otherwise the cached Credential is reused
\* as it is (an empty expires_dt never counts as expired).
C6_RefreshExactlyWhenExpired ==
  [][ (pc = "auth" /\ pc' # "auth") =>
        IF _token = None
        THEN trace'.tokenCalls = trace.tokenCalls + 1
        ELSE IF /\ _token[1].expires_dt.fmt = "timestamp"
                /\ now >= _token[1].expires_dt.time - 60 * Second
        THEN trace'.tokenCalls = trace.tokenCalls + 1
        ELSE /\ trace'.tokenCalls = trace.tokenCalls
             /\ _token' = _token
             /\ headers'.authorization = _token[1].access_token ]_vars

\* a cached Credential that expires within 30 seconds, not yet past its
\* expiry, and the token-acquisition call made for it
C6_Witness ==
  /\ pc = "token_post"
  /\ _token # None
  /\ _token[1].expires_dt.fmt = "timestamp"
  /\ _token[1].expires_dt.time - now > 0
  /\ _token[1].expires_dt.time - now <= 30 * Second

(* ------------------------------- C7 ------------------------------------ *)

\* C7: when the token endpoint answers with neither a token nor an
\* access_token, the request ends at once with the fatal error: the
\* attempt's get_auth_header is followed by no API POST, no further call is
\* made, and the cached Credential slot is as it was before the refresh.
C7_MissingTokenIsFatal ==
  trace.tokenMissing =>
    /\ pc = "idle"
    /\ outcome = Raised("RuntimeError")
    /\ _token = trace.slotBefore
    /\ trace.posts = trace.auths - 1
    /\ trace.posts = Len(trace.replies)

\* the refresh of an expired cached Credential, on a retry, got no token field
C7_Witness ==
  /\ trace.tokenMissing
  /\ trace.slotBefore # None
  /\ trace.auths = 2
  /\ Ended

(* ------------------------------- C8 ------------------------------------ *)

\* C8: revoke (and so KiwoomClient.close) never raises because the revoke
\* POST failed.
C8_RevokeNeverRaises ==
  (call.name = "revoke" /\ pc = "idle") => outcome.state # "raised"

(* ------------------------------- C9 ------------------------------------ *)

\* C9: after revoke has ended on any path the Credential slot is empty, and
\* the first get_auth_header of a request that follows a revoke acquires a
\* new token; with no Credential cached revoke sends no request.
C9_RevokeClearsSlot ==
  /\ (call.name = "revoke" /\ pc = "idle") =>
       /\ _token = None
       /\ trace.slotBefore = None => (trace.revokePosts = 0 /\ outcome = ReturnedNone)
       /\ trace.slotBefore # None => trace.revokePosts = 1
  /\ (InRequest /\ call.prev = "revoke" /\ trace.posts > 0) => trace.tokenCalls > 0

\* revoke of a cached Credential whose POST failed
C9_Witness ==
  /\ call.name = "revoke"
  /\ pc = "idle"
  /\ trace.slotBefore # None
  /\ outcome.state = "raised"

(* ------------------------------- C10 ----------------------------------- *)

\* C10: a transport failure of the API POST on an attempt that is not the
\* last is retried; it reaches the caller only once the budget is used up.
C10_TransportFailureRetried ==
  (LastIsTransportFailure /\ Len(trace.replies) < call.retry_count) =>
    ~(pc = "idle" /\ outcome.state = "raised")

(* ------------------------------- C19 ----------------------------------- *)

\* how far a call is from its end: the attempts left, then the steps left in
\* the attempt
StepsLeft(p) ==
  CASE p = "loop" -> 4 [] p = "auth" -> 3 [] p = "token_post" -> 2
    [] p = "post" -> 1 [] p = "revoke_post" -> 1 [] p = "idle" -> 0
Distance(p, att, retry_count) == (retry_count - att) * 5 + StepsLeft(p)

\* the counts of a request with budget n >= 1: at most n attempts and n
\* POSTs, one pacing wait and one get_auth_header call before every POST,
\* and the continuation headers as the caller gave them
C19_Counts ==
  (InRequest /\ call.retry_count >= 1) =>
    /\ attempt < call.retry_count
    /\ trace.posts <= call.retry_count
    /\ trace.waits <= call.retry_count
    /\ trace.auths <= trace.waits
    /\ trace.posts <= trace.auths
    /\ pc = "post" =>
         /\ trace.posts = attempt + 1
         /\ trace.waits = attempt + 1
         /\ trace.auths = attempt + 1
         /\ headers.cont_yn = call.cont_yn
         /\ headers.next_key = call.next_key
         /\ headers.api_id = call.api_id

\* C19: a _request call with budget n >= 1 issues at most n POSTs in at most
\* n attempts and ends: while it runs a next step is always possible and
\* every step brings it nearer to its end; each attempt has one pacing wait
\* and one get_auth_header call before its POST, and cont-yn / next-key go
\* out on every attempt exactly when the caller gave non-empty values.
C19_BoundedRequest ==
  /\ []C19_Counts
  /\ [](pc # "idle" => ENABLED Next)
  /\ [][pc # "idle" =>
          /\ Distance(pc, attempt, call.retry_count) >= 0
          /\ Distance(pc', attempt', call.retry_count)
               < Distance(pc, attempt, call.retry_count)]_vars

\* the third POST of a request with budget 3 that carries next-key but no cont-yn
C19_Witness ==
  /\ InRequest
  /\ call.retry_count = 3
  /\ pc = "post"
  /\ trace.posts = 3
  /\ headers.cont_yn = ""
  /\ headers.next_key = "k1"

(* ------------------ claims about evaluate_signal (SigSpec) -------------- *)

\* the call has returned a row
SigHasRow == sig.pc = "returned" /\ sig.result # None
SigRow == sig.result[1]
\* the sums of volumes[-25:-5] and of volumes[-5:]
WindowSum == sum(Window(sig.volumes, 25, 5))
RecentSum == sum(Last(sig.volumes, 5))
\* the mean of the last 20 closes
LongMean == Frac(sum(Last(sig.closes, 20)), 20)
InBand == Leq(sig.pullback_min, SigRow.retrace_pct) /\ Leq(SigRow.retrace_pct, sig.pullback_max)
Holds98 == Leq(Times(LongMean, Frac(98, 100)), Whole(sig.closes[Len(sig.closes)]))

\* the end-to-end example with the default thresholds has been evaluated
ExampleEvaluated ==
  /\ sig.pc = "returned"
  /\ sig.closes = ExampleCloses
  /\ sig.recent_high_bars = DefaultRecentHighBars
  /\ sig.pullback_min = Whole(DefaultPullbackMin)
  /\ sig.pullback_max = Whole(DefaultPullbackMax)
  /\ sig.min_vol_ratio = Whole(DefaultMinVolRatio)

\* C13 as stated: the example series with the default thresholds yields
\* pullback_ok, rebound_ok and signal all true.
C13_ExampleIsSignal ==
  ExampleEvaluated =>
    /\ sig.result # None
    /\ SigRow.pullback_ok
    /\ SigRow.rebound_ok
    /\ SigRow.signal

\* C13 (amended): on the example series with the default thresholds the current
\* close 103 is itself the recent high, so retrace_pct is 0, below pullback_min:
\* the row has pullback_ok false and signal false whatever the volumes, and
\* rebound_ok is true exactly when volume_ratio >= 1.0.
C13_ExampleIsNoPullback ==
  ExampleEvaluated =>
    /\ sig.result # None
    /\ Same(SigRow.retrace_pct, Whole(0))
    /\ ~SigRow.pullback_ok
    /\ ~SigRow.signal
    /\ SigRow.rebound_ok <=> Leq(Whole(1), SigRow.volume_ratio)

C13_Witness ==
  ExampleEvaluated /\ sig.result # None /\ SigRow.rebound_ok /\ ~SigRow.pullback_ok

\* C14 as stated: volume_ratio is never negative, and is 0 exactly when the
\* trailing-20 volume window sums to 0.
C14_RatioZeroIffWindowZero ==
  SigHasRow =>
    /\ Leq(Whole(0), SigRow.volume_ratio)
    /\ Same(SigRow.volume_ratio, Whole(0)) <=> WindowSum = 0

\* C14 (amended): for every series of at least 30 samples, volume_ratio is 0
\* exactly when the trailing-20 window does not sum to a positive number or the
\* last five volumes sum to 0; otherwise it has the sign of the last-five sum,
\* so it is negative only when volumes are.
C14_RatioZeroIffNoWindowOrNoRecent ==
  SigHasRow =>
    /\ Same(SigRow.volume_ratio, Whole(0)) <=> (WindowSum <= 0 \/ RecentSum = 0)
    /\ Less(SigRow.volume_ratio, Whole(0)) <=> (WindowSum > 0 /\ RecentSum < 0)

C14_Witness ==
  SigHasRow /\ WindowSum > 0 /\ RecentSum = 0 /\ Same(SigRow.volume_ratio, Whole(0))

\* the bonus of the score, from the returned volume_ratio
Bonus ==
  IF Leq(SigRow.volume_ratio, Whole(1)) THEN Whole(0)
  ELSE IF Leq(Whole(2), SigRow.volume_ratio) THEN Whole(20)
  ELSE Times(Minus(SigRow.volume_ratio, Whole(1)), Whole(20))

\* C15: whenever evaluate_signal returns a row, signal_score is between 0 and
\* 100 and equals 40 if pullback_ok, plus 40 if rebound_ok, plus
\* (volume_ratio - 1.0) * 20 clamped to [0, 20].
C15_ScoreInRange ==
  SigHasRow =>
    /\ Leq(Whole(0), SigRow.signal_score)
    /\ Leq(SigRow.signal_score, Whole(100))
    /\ Same(SigRow.signal_score,
            Plus(Whole((IF SigRow.pullback_ok THEN 40 ELSE 0)
                       + (IF SigRow.rebound_ok THEN 40 ELSE 0)), Bonus))

C15_Witness ==
  /\ SigHasRow
  /\ SigRow.pullback_ok
  /\ SigRow.rebound_ok
  /\ Less(Whole(2), SigRow.volume_ratio)
  /\ Same(SigRow.signal_score, Whole(100))

\* C20 as stated: pullback_ok is true exactly when retrace_pct is within the
\* band and the current close is at least 98% of the mean of the last 20
\* closes, also when that mean is 0; signal is pullback_ok and rebound_ok.
C20_PullbackIffBandAnd98 ==
  SigHasRow =>
    /\ SigRow.pullback_ok <=> (InBand /\ Holds98)
    /\ SigRow.signal <=> (SigRow.pullback_ok /\ SigRow.rebound_ok)

\* C20 (amended): for every series of at least 30 non-negative closes and every
\* threshold set, pullback_ok is true exactly when retrace_pct is within the
\* band, long_ma (the mean of the last 20 closes) is greater than 0 and the
\* current close is at least 98% of long_ma; a series whose long_ma is 0 never
\* has pullback_ok; signal is true exactly when pullback_ok and rebound_ok are.
C20_PullbackNeedsPositiveLongMa ==
  SigHasRow =>
    /\ Same(SigRow.long_ma, LongMean)
    /\ SigRow.pullback_ok <=> (InBand /\ Less(Whole(0), LongMean) /\ Holds98)
    /\ SigRow.signal <=> (SigRow.pullback_ok /\ SigRow.rebound_ok)

C20_Witness ==
  SigHasRow /\ Same(LongMean, Whole(0)) /\ InBand /\ Holds98 /\ ~SigRow.pullback_ok

(* --------------- claims about the batch signal run (BatchSpec) ---------- *)

Range(seq) == {seq[k] : k \in DOMAIN seq}
Occurrences(seq, x) == Cardinality({k \in DOMAIN seq : seq[k] = x})
\* the fetches answered with a decoded body whose return_code is not 0
ErrorCoded == {k \in DOMAIN batch.replies :
                 batch.replies[k].state = "returned" /\ batch.replies[k].return_code # 0}
\* the fetches that raised
FailedFetches == {k \in DOMAIN batch.replies : batch.replies[k].state = "raised"}
\* the fetches answered with a chart of fewer than 30 bars
ShortCharts == {k \in DOMAIN batch.replies :
                  /\ batch.replies[k].state = "returned"
                  /\ batch.replies[k].return_code = 0
                  /\ batch.replies[k].samples < MinSamples}

\* C11 as stated: a decoded chart response whose return_code is not 0 is
\* surfaced as an error: the run does not go on past it without one.
C11_ErrorCodeSurfaced ==
  ErrorCoded # {} => (batch.pc = "raised" /\ batch.exc # "")

\* C12 as stated: a fetch that raises does not abort the batch run: when main
\* is over, every candidate with a code has been fetched.
C12_LaterCandidatesFetched ==
  batch.closed =>
    \A k \in DOMAIN batch.candidates :
      strip(batch.candidates[k]) # "" => batch.candidates[k] \in Range(batch.fetched)

\* C16: after the batch sort every signal row precedes every non-signal row,
\* rows of equal signal are in non-increasing score order, rows of equal signal
\* and score are in non-increasing volume_ratio order, and the sorted list is a
\* permutation of the evaluated rows.
C16_SortedBySignalScoreRatio ==
  batch.saved =>
    /\ \A i \in DOMAIN batch.sorted : \A j \in DOMAIN batch.sorted :
         i < j =>
           /\ batch.sorted[j].signal => batch.sorted[i].signal
           /\ batch.sorted[i].signal = batch.sorted[j].signal =>
                /\ Leq(batch.sorted[j].signal_score, batch.sorted[i].signal_score)
                /\ Same(batch.sorted[j].signal_score, batch.sorted[i].signal_score) =>
                     Leq(batch.sorted[j].volume_ratio, batch.sorted[i].volume_ratio)
    /\ Len(batch.sorted) = Len(batch.rows)
    /\ \A r \in Range(batch.rows) \cup Range(batch.sorted) :
         Occurrences(batch.sorted, r) = Occurrences(batch.rows, r)

C16_Witness ==
  /\ batch.saved
  /\ Len(batch.sorted) = 3
  /\ batch.sorted[1].signal
  /\ ~batch.sorted[2].signal
  /\ Same(batch.sorted[2].signal_score, batch.sorted[3].signal_score)
  /\ Less(batch.sorted[3].volume_ratio, batch.sorted[2].volume_ratio)
  /\ batch.rows = <<batch.sorted[3], batch.sorted[2], batch.sorted[1]>>

\* C17: a close series of fewer than 30 samples makes evaluate_signal return
\* None whatever the volumes and thresholds; in the batch run an instrument
\* with such a chart adds no row to the rows, the sorted list or the output,
\* and the run goes on past it without an error.
C17_ShortSeriesIsSkipped ==
  /\ \A items \in Charts : \A band \in Bands : \A bars \in RecentHighBars :
       Len(items) < MinSamples =>
         evaluate_signal("005930", to_series(items).closes, to_series(items).volumes,
                         bars, band[1], band[2], Whole(DefaultMinVolRatio)) = None
  /\ \A k \in ShortCharts :
       /\ \A r \in Range(batch.rows) \cup Range(batch.sorted) \cup Range(batch.output) :
            r.code # batch.replies[k].code
       /\ batch.i > k
       /\ (batch.pc = "raised" /\ ~batch.saved) => (k < Len(batch.replies) /\ FailedFetches # {})

C17_Witness ==
  /\ batch.pc = "done"
  /\ \E k \in ShortCharts : batch.replies[k].samples = MinSamples - 1
  /\ Len(batch.output) = 2

(* ----------------- claims about the ranked list run (ListSpec) ---------- *)

\* C18 as stated: every row that is printed or written has a code that is a
\* trimmed, non-empty string, in every mode.
C18_PrintedCodesNonEmpty ==
  \A r \in Range(listing.printed) \cup Range(listing.written) :
    r.code # "" /\ strip(r.code) = r.code

====
